---- MODULE Spec2Model ----
(***************************************************************************)
(* Model of make_image.py: make_arm64_image(input_bin, output_image,       *)
(* load_offset) and the command-line entry point.                          *)
(*                                                                         *)
(* The file system is a function from paths to files.  One invocation is   *)
(* followed step by step: argument check, reading the input, packing the   *)
(* header, opening the output (which truncates it), the two writes and the *)
(* report.  A successful invocation may be repeated with the same          *)
(* arguments.                                                              *)
(*                                                                         *)
(* Python integers are unbounded.  An integer is modelled as a sign and a  *)
(* little-endian sequence of base-256 digits without high zero digits, so  *)
(* that values around 2^64 are represented exactly.                        *)
(***************************************************************************)
EXTENDS Integers, Sequences, FiniteSets, TLC

(* ---------------------------- bounds ----------------------------------- *)
MaxPayload == 2
MaxRuns == 2

(* ------------------------ program constants ---------------------------- *)
HeaderSize == 64
Code0 == 335544336
Code1 == 0
Flags == 0
Res2 == 0
Res3 == 0
Res4 == 0
Magic == 1682788929
PadBytes == 4
MinArgc == 3

Byte == 0..255

(* --------------------------- Python ints ------------------------------- *)
RECURSIVE NatToMag(_)
NatToMag(n) == IF n = 0 THEN <<>> ELSE <<n % 256>> \o NatToMag(n \div 256)

PyInt(n) == [neg |-> FALSE, mag |-> NatToMag(n)]

Zeros(k) == [i \in 1..k |-> 0]

Ones(k) == [i \in 1..k |-> 255]

RECURSIVE Strip(_)
Strip(s) ==
    IF s = <<>> THEN <<>>
    ELSE IF s[Len(s)] = 0 THEN Strip(SubSeq(s, 1, Len(s) - 1))
    ELSE s

(* -------------------------- struct.pack -------------------------------- *)
\* '<IIQQQQQQI4x': widths in bytes of the nine packed values, little-endian,
\* no alignment, followed by four pad bytes.
HeaderFormat == <<4, 4, 8, 8, 8, 8, 8, 8, 4>>

\* Variant: negative values are rejected, large ones are not.
FitsUnsignedUnchecked(v, width) == ~v.neg

\* One unsigned field: struct.error unless 0 <= v < 256^width.
FitsUnsigned(v, width) == ~v.neg /\ Len(v.mag) <= width

RECURSIVE Reverse(_)
Reverse(s) == IF s = <<>> THEN <<>> ELSE Append(Reverse(Tail(s)), Head(s))

\* Variant: '>' byte order.
PackUnsignedBigEndian(v, width) == Reverse(v.mag \o Zeros(width - Len(v.mag)))

PackUnsigned(v, width) == v.mag \o Zeros(width - Len(v.mag))

RECURSIVE PackFields(_, _)
PackFields(fmt, vals) ==
    IF fmt = <<>> THEN <<>>
    ELSE PackUnsigned(Head(vals), Head(fmt)) \o PackFields(Tail(fmt), Tail(vals))

StructPack(fmt, pad, vals) ==
    IF \A i \in 1..Len(fmt) : FitsUnsigned(vals[i], fmt[i])
    THEN [ok |-> TRUE, bytes |-> PackFields(fmt, vals) \o Zeros(pad)]
    ELSE [ok |-> FALSE, bytes |-> <<>>]

\* Variant: text_offset and image_size passed in the wrong order.
HeaderValuesSwapped(text_offset, kernel_size) ==
    << PyInt(Code0), PyInt(Code1), PyInt(kernel_size + HeaderSize), text_offset,
       PyInt(Flags), PyInt(Res2), PyInt(Res3), PyInt(Res4), PyInt(Magic) >>

\* The header make_arm64_image builds for a payload of kernel_size bytes.
HeaderValues(text_offset, kernel_size) ==
    << PyInt(Code0), PyInt(Code1), text_offset, PyInt(kernel_size + HeaderSize),
       PyInt(Flags), PyInt(Res2), PyInt(Res3), PyInt(Res4), PyInt(Magic) >>

PackHeader(text_offset, kernel_size) ==
    StructPack(HeaderFormat, PadBytes, HeaderValues(text_offset, kernel_size))

(* ------------------------- input domains -------------------------------- *)
Paths == {"a", "b"}

NoPath == ""

PayloadBytes == {0, 171}

RECURSIVE SeqsUpTo(_, _)
SeqsUpTo(S, n) ==
    IF n = 0 THEN {<<>>}
    ELSE LET shorter == SeqsUpTo(S, n - 1)
         IN  shorter \cup {Append(s, x) : s \in shorter, x \in S}

\* A file longer than every image a first run can produce.
LongContent == [i \in 1..(HeaderSize + MaxPayload + 1) |-> 238]

Contents == SeqsUpTo(PayloadBytes, MaxPayload) \cup {LongContent}

Absent == [exists |-> FALSE, data |-> <<>>]

File(d) == [exists |-> TRUE, data |-> d]

Files == {Absent} \cup {File(d) : d \in Contents}

\* 0, 0x80000, 2^64 - 1, 2^64, 2^64 + 0x80000, -1
LoadOffsets ==
    { PyInt(0), PyInt(524288),
      [neg |-> FALSE, mag |-> Ones(8)],
      [neg |-> FALSE, mag |-> Zeros(8) \o <<1>>],
      [neg |-> FALSE, mag |-> <<0, 0, 8, 0, 0, 0, 0, 0, 1>>],
      [neg |-> TRUE, mag |-> <<1>>] }

ExtraArgs == {"0x80000"}

Argvs ==
    {<<"prog">>}
    \cup {<<"prog", p>> : p \in Paths}
    \cup {<<"prog", p, q>> : p \in Paths, q \in Paths}
    \cup {<<"prog", p, q, x>> : p \in Paths, q \in Paths, x \in ExtraArgs}

(* ------------------------------ state ----------------------------------- *)
VARIABLES
    fs,            \* the file system: path -> [exists, data]
    pc,            \* position of the running invocation
    via,           \* "none", "cli" (script run) or "api" (function called)
    argv,          \* sys.argv of a script run
    input_bin,     \* parameters of make_arm64_image
    output_image,
    load_offset,
    lo_given,      \* whether the caller supplied load_offset
    kernel_data,   \* locals of make_arm64_image
    header,
    stdout,        \* what the invocation printed
    exit_status,   \* exit status of a script run, -1 while running
    err,           \* the exception that ended the invocation, "" if none
    called,        \* make_arm64_image was entered
    opened,        \* the open() calls attempted by the invocation
    pre,           \* the file system when the invocation started
    prev_image,    \* the output of the preceding successful run
    runs           \* number of invocations started

vars == << fs, pc, via, argv, input_bin, output_image, load_offset, lo_given,
           kernel_data, header, stdout, exit_status, err, called, opened,
           pre, prev_image, runs >>

params == << input_bin, output_image, load_offset, lo_given >>

locals == << kernel_data, header >>

\* Variant: load_offset=0x80000 as the default.
DefaultLoadOffsetNonZero == PyInt(524288)

DefaultLoadOffset == PyInt(0)

Init ==
    /\ fs \in [Paths -> Files]
    /\ pc = "idle"
    /\ via = "none"
    /\ argv = <<>>
    /\ input_bin = NoPath
    /\ output_image = NoPath
    /\ load_offset = DefaultLoadOffset
    /\ lo_given = FALSE
    /\ kernel_data = <<>>
    /\ header = <<>>
    /\ stdout = <<>>
    /\ exit_status = -1
    /\ err = ""
    /\ called = FALSE
    /\ opened = {}
    /\ pre = fs
    /\ prev_image = [valid |-> FALSE, data |-> <<>>]
    /\ runs = 0

\* Entering make_arm64_image(i, o[, lo]): parameters are bound, the default
\* applies when load_offset is not supplied.
Enter(i, o, given, lo) ==
    /\ input_bin' = i
    /\ output_image' = o
    /\ lo_given' = given
    /\ load_offset' = IF given THEN lo ELSE DefaultLoadOffset
    /\ called' = TRUE
    /\ pc' = "read"

\* An uncaught exception ends the invocation; a script run exits with 1.
Raise(e) ==
    /\ pc' = "failed"
    /\ err' = e
    /\ exit_status' = IF via = "cli" THEN 1 ELSE exit_status

Fresh ==
    /\ kernel_data' = <<>>
    /\ header' = <<>>
    /\ stdout' = <<>>
    /\ exit_status' = -1
    /\ err' = ""
    /\ opened' = {}
    /\ pre' = fs

(* --------------------------- invocations -------------------------------- *)
\* python make_image.py <args>
RunScript(av) ==
    /\ pc = "idle"
    /\ runs = 0
    /\ via' = "cli"
    /\ argv' = av
    /\ pc' = "main"
    /\ called' = FALSE
    /\ runs' = 1
    /\ Fresh
    /\ UNCHANGED << fs, params, prev_image >>

\* make_arm64_image(i, o, lo) called from Python
Call3(i, o, lo) ==
    /\ pc = "idle"
    /\ runs = 0
    /\ via' = "api"
    /\ Enter(i, o, TRUE, lo)
    /\ runs' = 1
    /\ Fresh
    /\ UNCHANGED << fs, argv, prev_image >>

\* make_arm64_image(i, o) called from Python
Call2(i, o) ==
    /\ pc = "idle"
    /\ runs = 0
    /\ via' = "api"
    /\ Enter(i, o, FALSE, DefaultLoadOffset)
    /\ runs' = 1
    /\ Fresh
    /\ UNCHANGED << fs, argv, prev_image >>

\* The same invocation once more, after it succeeded.
Rerun ==
    /\ pc = "done"
    /\ runs < MaxRuns
    /\ runs' = runs + 1
    /\ prev_image' = [valid |-> TRUE, data |-> fs[output_image].data]
    /\ Fresh
    /\ IF via = "cli"
       THEN /\ pc' = "main"
            /\ called' = FALSE
            /\ UNCHANGED params
       ELSE Enter(input_bin, output_image, lo_given, load_offset)
    /\ UNCHANGED << fs, via, argv >>

(* ------------------------------ __main__ -------------------------------- *)
\* Variant: if len(sys.argv) <= 3
ArgsMissingOffByOne == Len(argv) < MinArgc + 1

\* if len(sys.argv) < 3
ArgsMissing == Len(argv) < MinArgc

MainUsage ==
    /\ pc = "main"
    /\ ArgsMissing
    /\ stdout' = << <<"Usage", argv[1]>> >>
    /\ exit_status' = 1
    /\ pc' = "usage_exit"
    /\ UNCHANGED << fs, via, argv, params, locals, err, called, opened, pre,
                    prev_image, runs >>

MainRun ==
    /\ pc = "main"
    /\ ~ArgsMissing
    /\ Enter(argv[2], argv[3], FALSE, DefaultLoadOffset)
    /\ UNCHANGED << fs, via, argv, locals, stdout, exit_status, err, opened,
                    pre, prev_image, runs >>

(* -------------------------- make_arm64_image ---------------------------- *)
\* Variant: the input opened with 'w+b', which empties it.
ReadInputTruncating ==
    /\ pc = "read"
    /\ fs[input_bin].exists
    /\ opened' = opened \cup {<<input_bin, "w+b">>}
    /\ kernel_data' = <<>>
    /\ fs' = [fs EXCEPT ![input_bin] = File(<<>>)]
    /\ pc' = "pack"
    /\ UNCHANGED << via, argv, params, header, stdout, exit_status, err,
                    called, pre, prev_image, runs >>

\* with open(input_bin, 'rb') as f: kernel_data = f.read()
ReadInput ==
    /\ pc = "read"
    /\ fs[input_bin].exists
    /\ opened' = opened \cup {<<input_bin, "rb">>}
    /\ kernel_data' = fs[input_bin].data
    /\ pc' = "pack"
    /\ UNCHANGED << fs, via, argv, params, header, stdout, exit_status, err,
                    called, pre, prev_image, runs >>

\* Variant: the output opened before the input is read.
ReadInputErrorOutputOpened ==
    /\ pc = "read"
    /\ opened' = opened \cup {<<output_image, "wb">>, <<input_bin, "rb">>}
    /\ fs' = [fs EXCEPT ![output_image] = File(<<>>)]
    /\ Raise(IF fs[input_bin].exists THEN "PermissionError"
             ELSE "FileNotFoundError")
    /\ UNCHANGED << via, argv, params, locals, stdout, called, pre,
                    prev_image, runs >>

\* The input is missing, or it exists and cannot be read.
ReadInputError ==
    /\ pc = "read"
    /\ opened' = opened \cup {<<input_bin, "rb">>}
    /\ Raise(IF fs[input_bin].exists THEN "PermissionError"
             ELSE "FileNotFoundError")
    /\ UNCHANGED << fs, via, argv, params, locals, stdout, called, pre,
                    prev_image, runs >>

\* header = struct.pack(...); assert len(header) == 64
BuildHeader ==
    /\ pc = "pack"
    /\ LET packed == PackHeader(load_offset, Len(kernel_data))
       IN  IF ~packed.ok
           THEN Raise("struct.error") /\ UNCHANGED header
           ELSE IF Len(packed.bytes) # HeaderSize
           THEN Raise("AssertionError") /\ UNCHANGED header
           ELSE /\ header' = packed.bytes
                /\ pc' = "open_out"
                /\ UNCHANGED << err, exit_status >>
    /\ UNCHANGED << fs, via, argv, params, kernel_data, stdout, called,
                    opened, pre, prev_image, runs >>

\* Variant: open(output_image, 'ab'), which keeps the existing bytes.
OpenForAppend(f) == File(f.data)

\* What open(output_image, 'wb') leaves at the path: a new or truncated file.
OpenForWrite(f) == File(<<>>)

\* Variant: the output opened without truncating it.
OpenOutputKeeping ==
    /\ pc = "open_out"
    /\ opened' = opened \cup {<<output_image, "wb">>}
    /\ fs' = [fs EXCEPT ![output_image] = File(fs[output_image].data)]
    /\ pc' = "write_header"
    /\ UNCHANGED << via, argv, params, locals, stdout, exit_status, err,
                    called, pre, prev_image, runs >>

OpenOutput ==
    /\ pc = "open_out"
    /\ opened' = opened \cup {<<output_image, "wb">>}
    /\ fs' = [fs EXCEPT ![output_image] = OpenForWrite(fs[output_image])]
    /\ pc' = "write_header"
    /\ UNCHANGED << via, argv, params, locals, stdout, exit_status, err,
                    called, pre, prev_image, runs >>

\* The output cannot be created or opened for writing.
OpenOutputError ==
    /\ pc = "open_out"
    /\ opened' = opened \cup {<<output_image, "wb">>}
    /\ Raise("OSError")
    /\ UNCHANGED << fs, via, argv, params, locals, stdout, called, pre,
                    prev_image, runs >>

\* Variant: the bytes written land in front of what the file holds.
FileWritePrepend(f, d) == File(d \o f.data)

\* f.write(d)
FileWrite(f, d) == File(f.data \o d)

WriteHeader ==
    /\ pc = "write_header"
    /\ fs' = [fs EXCEPT ![output_image] = FileWrite(fs[output_image], header)]
    /\ pc' = "write_payload"
    /\ UNCHANGED << via, argv, params, locals, stdout, exit_status, err,
                    called, opened, pre, prev_image, runs >>

WritePayload ==
    /\ pc = "write_payload"
    /\ fs' = [fs EXCEPT ![output_image] =
                 FileWrite(fs[output_image], kernel_data)]
    /\ pc' = "report"
    /\ UNCHANGED << via, argv, params, locals, stdout, exit_status, err,
                    called, opened, pre, prev_image, runs >>

\* A write fails (disk full, I/O error) after k bytes of it reached the file;
\* the partial output is left in place.
PendingWrite == IF pc = "write_header" THEN header ELSE kernel_data

WriteError(k) ==
    /\ pc \in {"write_header", "write_payload"}
    /\ k \in 0..Len(PendingWrite)
    /\ fs' = [fs EXCEPT ![output_image] =
                 FileWrite(fs[output_image], SubSeq(PendingWrite, 1, k))]
    /\ Raise("OSError")
    /\ UNCHANGED << via, argv, params, locals, stdout, called, opened, pre,
                    prev_image, runs >>

\* The five print calls, then return.
Report ==
    /\ pc = "report"
    /\ stdout' = << <<"Created ARM64 Image", output_image>>,
                    <<"Header size", HeaderSize>>,
                    <<"Kernel size", Len(kernel_data)>>,
                    <<"Total size", Len(fs[output_image].data)>>,
                    <<"Load offset", load_offset>> >>
    /\ exit_status' = IF via = "cli" THEN 0 ELSE exit_status
    /\ pc' = "done"
    /\ UNCHANGED << fs, via, argv, params, locals, err, called, opened, pre,
                    prev_image, runs >>

Next ==
    \/ \E av \in Argvs : RunScript(av)
    \/ \E i \in Paths, o \in Paths, lo \in LoadOffsets : Call3(i, o, lo)
    \/ \E i \in Paths, o \in Paths : Call2(i, o)
    \/ Rerun
    \/ MainUsage
    \/ MainRun
    \/ ReadInput
    \/ ReadInputError
    \/ BuildHeader
    \/ OpenOutput
    \/ OpenOutputError
    \/ WriteHeader
    \/ WritePayload
    \/ \E k \in 0..Len(PendingWrite) : WriteError(k)
    \/ Report

Spec == Init /\ [][Next]_vars

(* ------------------- reading an image back ------------------------------ *)
\* The documented layout of the 64 header bytes: code0, code1, text_offset,
\* image_size, flags, three reserved fields, magic, pad.
ImageLayout == <<4, 4, 8, 8, 8, 8, 8, 8, 4, 4>>

RECURSIVE FieldOffset(_)
FieldOffset(i) == IF i = 1 THEN 0 ELSE FieldOffset(i - 1) + ImageLayout[i - 1]

\* Little-endian unsigned value of field i of an image.
Field(bytes, i) ==
    [neg |-> FALSE,
     mag |-> Strip(SubSeq(bytes, FieldOffset(i) + 1,
                          FieldOffset(i) + ImageLayout[i]))]

Decode(bytes) ==
    [code0 |-> Field(bytes, 1), code1 |-> Field(bytes, 2),
     text_offset |-> Field(bytes, 3), image_size |-> Field(bytes, 4),
     flags |-> Field(bytes, 5), res2 |-> Field(bytes, 6),
     res3 |-> Field(bytes, 7), res4 |-> Field(bytes, 8),
     magic |-> Field(bytes, 9), pad |-> Field(bytes, 10)]

\* What the finished invocation was given and what it left behind.
Payload == pre[input_bin].data

Output == fs[output_image].data

Succeeded == pc = "done"

InputErrors == {"FileNotFoundError", "PermissionError"}

TooLarge(v) == ~v.neg /\ Len(v.mag) > 8

Truncated(v) == [neg |-> FALSE, mag |-> Strip(SubSeq(v.mag, 1, 8))]

(* ------------------------------ claims ---------------------------------- *)
\* C1: after a successful make_arm64_image the output file holds the 64
\* header bytes followed immediately by the payload that was at the input
\* path: its length is 64 + len(P) and its bytes from offset 64 on are P.
C1_HeaderThenPayload ==
    Succeeded =>
        /\ fs[output_image].exists
        /\ Len(Output) = 64 + Len(Payload)
        /\ SubSeq(Output, 1, 64) = header
        /\ SubSeq(Output, 65, Len(Output)) = Payload

C1_Witness ==
    /\ Succeeded
    /\ Payload = <<171, 0>>
    /\ runs = 1

C1_WitnessEmpty ==
    /\ Succeeded
    /\ Payload = <<>>
    /\ Len(Output) = 64

\* C2: the first 64 bytes of the output of a successful run decode to a
\* header whose image_size is 64 + len(P) and whose text_offset is the
\* load_offset the function was given.
C2_SizeAndOffsetDecode ==
    Succeeded =>
        /\ Decode(Output).image_size = PyInt(64 + Len(Payload))
        /\ Decode(Output).text_offset = load_offset

C2_Witness ==
    /\ Succeeded
    /\ lo_given
    /\ load_offset = PyInt(524288)
    /\ Len(Payload) > 0

\* C3 as stated: a second run with the same input path, output path and
\* load_offset leaves the output file byte-identical to what the first run
\* left.
C3_Original ==
    (Succeeded /\ prev_image.valid) => Output = prev_image.data

\* C3 amended: the same, when the output path is not the input path.
C3_IdempotentDistinctPaths ==
    (Succeeded /\ prev_image.valid /\ input_bin # output_image)
        => Output = prev_image.data

C3_Witness ==
    /\ Succeeded
    /\ prev_image.valid
    /\ input_bin # output_image
    /\ Len(Payload) > 0

\* C4: when the input path is missing or unreadable the invocation fails
\* before the output path is opened; the output path is neither created
\* nor modified.
C4_InputErrorLeavesOutput ==
    (err \in InputErrors) =>
        /\ pc = "failed"
        /\ <<output_image, "wb">> \notin opened
        /\ fs[output_image] = pre[output_image]

C4_Witness ==
    /\ err = "FileNotFoundError"
    /\ input_bin # output_image
    /\ pre[output_image].exists
    /\ Len(pre[output_image].data) > 0

C4_WitnessAbsent ==
    /\ err \in InputErrors
    /\ ~fs[output_image].exists

\* C5: a script run with fewer than two arguments prints the usage message
\* and exits with status 1 without entering make_arm64_image or opening or
\* changing any file; with two or more arguments make_arm64_image is
\* entered.
C5_UsageOrConversion ==
    (via = "cli" /\ pc # "main") =>
        IF Len(argv) - 1 < 2
        THEN /\ pc = "usage_exit"
             /\ exit_status = 1
             /\ Len(stdout) = 1
             /\ stdout[1][1] = "Usage"
             /\ ~called
             /\ opened = {}
             /\ fs = pre
        ELSE called /\ pc # "usage_exit"

C5_Witness ==
    /\ pc = "usage_exit"
    /\ Len(argv) = 2

C5_WitnessTwoArgs ==
    /\ via = "cli"
    /\ Len(argv) = 3
    /\ Succeeded

\* C6: in the output of every successful run magic decodes to 0x644d5241,
\* code0 to 0x14000010, and code1, flags, the three reserved fields and the
\* pad to 0.
C6_FixedFields ==
    Succeeded =>
        LET h == Decode(Output)
        IN  /\ h.magic = PyInt(1682788929)
            /\ SubSeq(Output, 57, 60) = <<65, 82, 77, 100>>
            /\ h.code0 = PyInt(335544336)
            /\ h.code1 = PyInt(0)
            /\ h.flags = PyInt(0)
            /\ h.res2 = PyInt(0)
            /\ h.res3 = PyInt(0)
            /\ h.res4 = PyInt(0)
            /\ h.pad = PyInt(0)

C6_Witness ==
    /\ Succeeded
    /\ lo_given
    /\ load_offset = [neg |-> FALSE, mag |-> Ones(8)]
    /\ Payload = <<171, 171>>

\* C7: after a successful run the output file is the header followed by the
\* payload and nothing else, whatever the output path held before, also
\* when it held more bytes than the new image has.
C7_Overwritten ==
    Succeeded =>
        fs[output_image] =
            File(PackHeader(load_offset, Len(Payload)).bytes \o Payload)

C7_Witness ==
    /\ Succeeded
    /\ input_bin # output_image
    /\ pre[output_image].exists
    /\ Len(pre[output_image].data) > Len(Output)

\* C8: when load_offset is not supplied, in a call make_arm64_image(i, o)
\* and in every script run with at least two arguments, the output's
\* text_offset decodes to 0.
C8_DefaultOffsetZero ==
    (Succeeded /\ (via = "cli" \/ ~lo_given)) =>
        Decode(Output).text_offset = PyInt(0)

C8_Witness ==
    /\ Succeeded
    /\ via = "cli"
    /\ Len(argv) = 4

C8_WitnessCall ==
    /\ Succeeded
    /\ via = "api"
    /\ ~lo_given

\* C9: an invocation, successful or failed, changes no file other than the
\* one at output_path; in particular the input file, when it is another
\* file, keeps its content.
C9_OnlyOutputChanges ==
    \A p \in Paths : p # output_image => fs[p] = pre[p]

C9_Witness ==
    /\ pc = "failed"
    /\ input_bin # output_image
    /\ fs[output_image] # pre[output_image]

C9_WitnessDone ==
    /\ Succeeded
    /\ input_bin # output_image
    /\ fs[output_image] # pre[output_image]

\* C10 as stated: a load_offset of 2^64 or more is accepted, the run is not
\* rejected with an error and the output's text_offset holds load_offset
\* mod 2^64.
C10_Original ==
    (lo_given /\ TooLarge(load_offset)) =>
        /\ err # "struct.error"
        /\ Succeeded => Decode(Output).text_offset = Truncated(load_offset)

\* C10 amended: a load_offset of 2^64 or more is not truncated; once the
\* input has been read, packing the header raises struct.error before the
\* output path is opened, and no file is created or modified.
C10_OverflowRejected ==
    (lo_given /\ TooLarge(load_offset) /\ pc \notin {"read", "pack"}
        /\ err \notin InputErrors) =>
        /\ pc = "failed"
        /\ err = "struct.error"
        /\ <<output_image, "wb">> \notin opened
        /\ fs = pre

C10_Witness ==
    /\ err = "struct.error"
    /\ lo_given
    /\ load_offset = [neg |-> FALSE, mag |-> <<0, 0, 8, 0, 0, 0, 0, 0, 1>>]
    /\ pre[output_image].exists

====
